---- MODULE Spec2Model ----
(***************************************************************************)
(* Model of packages/core/src/render3/util.ts: the navigation and          *)
(* resolution helpers of the Ivy runtime.  Every helper is a synchronous   *)
(* query; a call is modelled as a small state machine whose steps are the  *)
(* iterations of the helper's loop.                                        *)
(*                                                                         *)
(*   args   the arguments of the call in progress                          *)
(*   frame  the local variables of the call in progress                    *)
(*   pc     the position of the call: "call" before it, then the loop it   *)
(*          is in, "done" once it returned, "throw" once it threw          *)
(*   ret    the value returned ("done"); before that NoValue, or an empty  *)
(*          value of the type returned                                     *)
(*   heap   the arrays (LView, LContainer, StylingContext), TNodes and     *)
(*          render nodes the call walks                                    *)
(*   patch  the monkey-patch field of every render node / component        *)
(***************************************************************************)
EXTENDS Integers, Sequences, FiniteSets, TLC

VARIABLES args, frame, pc, ret, heap, patch

vars == <<args, frame, pc, ret, heap, patch>>

\* What a variable holds when the call in progress does not use it.
NoValue == "none"

(***************************************************************************)
(* JavaScript values, as far as `!==` tells them apart: a type tag, the    *)
(* NaN flag of a number, and a payload (the number, or the identity of an  *)
(* object / string).                                                       *)
(***************************************************************************)
MaxNum == 2

JsNumber(n) == [type |-> "number", nan |-> FALSE, v |-> n]
JsNaN == [type |-> "number", nan |-> TRUE, v |-> 0]
JsObject(id) == [type |-> "object", nan |-> FALSE, v |-> id]
JsString(id) == [type |-> "string", nan |-> FALSE, v |-> id]
JsUndefined == [type |-> "undefined", nan |-> FALSE, v |-> 0]
JsNull == [type |-> "null", nan |-> FALSE, v |-> 0]

JsValues ==
    {JsNumber(n) : n \in 0..MaxNum} \cup {JsNaN, JsUndefined, JsNull}
        \cup {JsObject(id) : id \in 1..2} \cup {JsString(id) : id \in 1..2}

\* a !== b
StrictNotEqual(a, b) ==
    IF a.type # b.type THEN TRUE
    ELSE IF a.nan \/ b.nan THEN TRUE
    ELSE a.v # b.v

\* A plausible slip: the NaN carve-out is dropped.
isDifferentNaive(a, b) == StrictNotEqual(a, b)

\* return !(a !== a && b !== b) && a !== b;
isDifferent(a, b) ==
    ~(StrictNotEqual(a, a) /\ StrictNotEqual(b, b)) /\ StrictNotEqual(a, b)

InitIsDifferent ==
    /\ args \in [a : JsValues, b : JsValues]
    /\ frame = NoValue
    /\ pc = "call"
    /\ ret = NoValue
    /\ heap = NoValue
    /\ patch = NoValue

CallIsDifferent ==
    /\ pc = "call"
    /\ ret' = isDifferent(args.a, args.b)
    /\ pc' = "done"
    /\ UNCHANGED <<args, frame, heap, patch>>

NextIsDifferent == CallIsDifferent

SpecIsDifferent == InitIsDifferent /\ [][NextIsDifferent]_vars

IsNaNValue(x) == x.type = "number" /\ x.nan

\* C1: isDifferent(a, b) is FALSE exactly when a === b or both are NaN, and
\* TRUE for every other pair, one-NaN pairs included; NaN/NaN and 1/1 are not
\* different, 1/2 and NaN/1 are.
IsDifferentContract ==
    /\ pc = "done" =>
          (ret = FALSE <=>
              (~StrictNotEqual(args.a, args.b)
                  \/ (IsNaNValue(args.a) /\ IsNaNValue(args.b))))
    /\ pc = "done" /\ (IsNaNValue(args.a) # IsNaNValue(args.b)) => ret = TRUE
    /\ isDifferent(JsNaN, JsNaN) = FALSE
    /\ isDifferent(JsNumber(1), JsNumber(1)) = FALSE
    /\ isDifferent(JsNumber(1), JsNumber(2)) = TRUE
    /\ isDifferent(JsNaN, JsNumber(1)) = TRUE

IsDifferentWitness ==
    /\ pc = "done"
    /\ args.a = JsNaN
    /\ args.b = JsNaN
    /\ ret = FALSE

(***************************************************************************)
(* flatten.  A nested array is a tree: a leaf carries a value, an array    *)
(* carries the sequence of its items.                                      *)
(***************************************************************************)
MaxLeaf == 2
MaxNodes == 4

Leaf(n) == [isArr |-> FALSE, val |-> n, items |-> <<>>]
Arr(s) == [isArr |-> TRUE, val |-> 0, items |-> s]

\* Forest(n): the item sequences of at most n nodes (leaves and arrays) in
\* all; Tree(n): the single items of at most n nodes.
RECURSIVE Forest(_), Tree(_)
Tree(n) ==
    IF n = 0 THEN {}
    ELSE {Leaf(v) : v \in 1..MaxLeaf} \cup {Arr(f) : f \in Forest(n - 1)}
Forest(n) ==
    {<<>>} \cup UNION {{<<t>> \o f : t \in Tree(k), f \in Forest(n - k)} : k \in 1..n}

\* flatten([1, [2, [3, 4]], 5]) and flatten([[]]) of the documentation.
ExampleDeep ==
    <<Leaf(1), Arr(<<Leaf(2), Arr(<<Leaf(3), Leaf(4)>>)>>), Leaf(5)>>
ExampleEmpty == <<Arr(<<>>)>>

FlattenInputs == Forest(MaxNodes) \cup {ExampleDeep, ExampleEmpty}

InitFlatten ==
    /\ args \in [list : FlattenInputs]
    /\ frame = [list |-> <<>>, i |-> 0, result |-> <<>>]
    /\ pc = "call"
    /\ ret = <<>>
    /\ heap = NoValue
    /\ patch = NoValue

\* const result = []; let i = 0;
FlattenEnter ==
    /\ pc = "call"
    /\ frame' = [list |-> args.list, i |-> 0, result |-> <<>>]
    /\ pc' = "loop"
    /\ UNCHANGED <<args, ret, heap, patch>>

\* list.slice(i + 1), i counted from 0
SliceFrom(list, i) == SubSeq(list, i + 1, Len(list))

\* A plausible slip: the rest of the outer list is dropped when descending.
FlattenStepNoTail ==
    /\ pc = "loop"
    /\ frame.i < Len(frame.list)
    /\ LET item == frame.list[frame.i + 1] IN
         IF item.isArr
         THEN IF Len(item.items) > 0
              THEN frame' = [frame EXCEPT !.list = item.items, !.i = 0]
              ELSE frame' = [frame EXCEPT !.i = frame.i + 1]
         ELSE frame' = [frame EXCEPT !.result = Append(frame.result, item),
                                     !.i = frame.i + 1]
    /\ UNCHANGED <<args, pc, ret, heap, patch>>

\* One iteration of while (i < list.length) { ... }
FlattenStep ==
    /\ pc = "loop"
    /\ frame.i < Len(frame.list)
    /\ LET item == frame.list[frame.i + 1] IN
         IF item.isArr
         THEN IF Len(item.items) > 0
              THEN frame' = [frame EXCEPT
                        !.list = item.items \o SliceFrom(frame.list, frame.i + 1),
                        !.i = 0]
              ELSE frame' = [frame EXCEPT !.i = frame.i + 1]
         ELSE frame' = [frame EXCEPT !.result = Append(frame.result, item),
                                     !.i = frame.i + 1]
    /\ UNCHANGED <<args, pc, ret, heap, patch>>

\* return result;
FlattenReturn ==
    /\ pc = "loop"
    /\ ~(frame.i < Len(frame.list))
    /\ ret' = frame.result
    /\ pc' = "done"
    /\ UNCHANGED <<args, frame, heap, patch>>

NextFlatten == FlattenEnter \/ FlattenStep \/ FlattenReturn

\* The loop is synchronous code that runs to completion: weak fairness.
SpecFlatten == InitFlatten /\ [][NextFlatten]_vars /\ WF_vars(NextFlatten)

\* The leaves of a nested array, depth first, left to right.
RECURSIVE LeavesOfSeq(_)
LeavesOfSeq(s) ==
    IF s = <<>> THEN <<>>
    ELSE LET h == Head(s) IN
         (IF h.isArr THEN LeavesOfSeq(h.items) ELSE <<h>>) \o LeavesOfSeq(Tail(s))

\* C2: for every finite nested sequence S, flatten(S) terminates and returns
\* the non-sequence leaves of S in depth-first left-to-right order, each once,
\* and no element of the result is a sequence.
FlattenContract ==
    /\ <>(pc = "done")
    /\ [](pc = "done" =>
            /\ ret = LeavesOfSeq(args.list)
            /\ \A k \in 1..Len(ret) : ~ret[k].isArr)

FlattenWitness ==
    /\ pc = "done"
    /\ args.list = ExampleDeep
    /\ ret = <<Leaf(1), Leaf(2), Leaf(3), Leaf(4), Leaf(5)>>

(***************************************************************************)
(* The injector location codec.  The bit operators of JavaScript work on   *)
(* the 32-bit two's complement integer that ToInt32 makes of a number:     *)
(* `x & m` with m = 2^k - 1 is x modulo 2^k and `x >> n` is the arithmetic *)
(* shift, floor(x / 2^n).                                                  *)
(***************************************************************************)
RECURSIVE TwoPow(_)
TwoPow(n) == IF n = 0 THEN 1 ELSE 2 * TwoPow(n - 1)

Int32Bits == 32
\* RelativeInjectorLocationFlags (interfaces/injector.ts)
InjectorIndexMask == 32767
ViewOffsetShift == 16
NO_PARENT_INJECTOR == -1

\* x & InjectorIndexMask on an int32 (the mask is 2^15 - 1)
getParentInjectorIndex(parentLocation) ==
    parentLocation % (InjectorIndexMask + 1)

\* x >> ViewOffsetShift on an int32
getParentInjectorViewOffset(parentLocation) ==
    parentLocation \div TwoPow(ViewOffsetShift)

\* ToInt32(s + o * 2^ViewOffsetShift) for 0 <= s < 2^ViewOffsetShift and
\* 0 <= o < 2^(32 - ViewOffsetShift): the high bits are o, read as a signed
\* (32 - ViewOffsetShift)-bit number; the low bits are s.
Int32Encode(s, o) ==
    LET high == TwoPow(Int32Bits - ViewOffsetShift)
        signed == IF o >= high \div 2 THEN o - high ELSE o
    IN  signed * TwoPow(ViewOffsetShift) + s

\* The inputs of the round trip: the edges of the two ranges.
EdgeSpan == 2
ScopeIndexEdges ==
    (0..EdgeSpan) \cup ((InjectorIndexMask - EdgeSpan)..InjectorIndexMask)
ViewOffsetEdges ==
    LET high == TwoPow(Int32Bits - ViewOffsetShift) IN
    (0..EdgeSpan)
        \cup ((high \div 2 - 1 - EdgeSpan)..(high \div 2 + EdgeSpan))
        \cup ((high - 1 - EdgeSpan)..(high - 1))

InitCodec ==
    /\ args \in [scopeIndex : ScopeIndexEdges, viewOffset : ViewOffsetEdges]
    /\ frame = [location |-> 0]
    /\ pc = "call"
    /\ ret = NoValue
    /\ heap = NoValue
    /\ patch = NoValue

CodecEncode ==
    /\ pc = "call"
    /\ frame' = [location |-> Int32Encode(args.scopeIndex, args.viewOffset)]
    /\ pc' = "encoded"
    /\ UNCHANGED <<args, ret, heap, patch>>

CodecDecode ==
    /\ pc = "encoded"
    /\ ret' = [scopeIndex |-> getParentInjectorIndex(frame.location),
               viewOffset |-> getParentInjectorViewOffset(frame.location)]
    /\ pc' = "done"
    /\ UNCHANGED <<args, frame, heap, patch>>

NextCodec == CodecEncode \/ CodecDecode

SpecCodec == InitCodec /\ [][NextCodec]_vars

\* C3: for every scope index within the mask and every view offset that fits
\* in the bits above the shift, decoding encode(s, o) = s + o * 2^shift gives
\* back s and o.
CodecRoundTrip ==
    pc = "done" =>
        /\ ret.scopeIndex = args.scopeIndex
        /\ ret.viewOffset = args.viewOffset

(***************************************************************************)
(* getParentInjectorView.  Views are numbered 1..NumViews and Null is the  *)
(* null reference; heap.decl[v] is v[DECLARATION_VIEW].  A view is         *)
(* declared in a view created before it, so the declaration chain is       *)
(* acyclic: decl[v] is Null or a view of a lower number.                   *)
(***************************************************************************)
Null == 0
NumViews == 4

Views == 1..NumViews

DeclHeaps ==
    {d \in [Views -> {Null} \cup Views] : \A v \in Views : d[v] < v}

\* The locations passed in: the given scope indices with every view offset
\* up to maxOffset, and the sentinel.
InjectorLocations(scopes, maxOffset) ==
    {Int32Encode(s, o) : s \in scopes, o \in 0..maxOffset}
        \cup {NO_PARENT_INJECTOR}

InitParentView ==
    /\ heap \in [decl : DeclHeaps]
    /\ args \in [location : InjectorLocations(0..1, NumViews), startView : Views]
    /\ frame = [viewOffset |-> 0, parentView |-> Null, declReads |-> 0]
    /\ pc = "call"
    /\ ret = NoValue
    /\ patch = NoValue

\* let viewOffset = getParentInjectorViewOffset(location);
\* let parentView = startView;
ParentViewEnter ==
    /\ pc = "call"
    /\ frame' = [viewOffset |-> getParentInjectorViewOffset(args.location),
                 parentView |-> args.startView,
                 declReads |-> 0]
    /\ pc' = "loop"
    /\ UNCHANGED <<args, ret, heap, patch>>

\* A plausible slip: the loop condition of getParentInjectorTNode.
ParentViewLoopCondFromOne(viewOffset) == viewOffset > 1

\* while (viewOffset > 0)
ParentViewLoopCond(viewOffset) == viewOffset > 0

\* parentView = parentView[DECLARATION_VIEW] !; viewOffset--;
\* Reading a field of null throws a TypeError.
ParentViewStep ==
    /\ pc = "loop"
    /\ ParentViewLoopCond(frame.viewOffset)
    /\ IF frame.parentView = Null
       THEN /\ pc' = "throw"
            /\ UNCHANGED frame
       ELSE /\ frame' = [viewOffset |-> frame.viewOffset - 1,
                         parentView |-> heap.decl[frame.parentView],
                         declReads |-> frame.declReads + 1]
            /\ UNCHANGED pc
    /\ UNCHANGED <<args, ret, heap, patch>>

\* return parentView;
ParentViewReturn ==
    /\ pc = "loop"
    /\ ~ParentViewLoopCond(frame.viewOffset)
    /\ ret' = frame.parentView
    /\ pc' = "done"
    /\ UNCHANGED <<args, frame, heap, patch>>

NextParentView == ParentViewEnter \/ ParentViewStep \/ ParentViewReturn

SpecParentView == InitParentView /\ [][NextParentView]_vars

\* The view k declaration hops above v; Null when the chain ends earlier.
RECURSIVE DeclAncestor(_, _)
DeclAncestor(v, k) ==
    IF k = 0 \/ v = Null THEN v ELSE DeclAncestor(heap.decl[v], k - 1)

\* The first k - 1 hops from v all reach a view, so the k-th read is defined.
RECURSIVE DeclChainDefined(_, _)
DeclChainDefined(v, k) ==
    IF k = 0 THEN TRUE
    ELSE v # Null /\ DeclChainDefined(heap.decl[v], k - 1)

\* C4: getParentInjectorView(location, startView) returns the view reached
\* by following DECLARATION_VIEW exactly the decoded view offset k times from
\* startView (it returns whenever those k reads are defined); with k = 0 it
\* returns startView and reads no DECLARATION_VIEW.
ParentViewContract ==
    LET k == getParentInjectorViewOffset(args.location) IN
    k >= 0 =>
        /\ DeclChainDefined(args.startView, k) => pc # "throw"
        /\ pc = "done" =>
              /\ ret = DeclAncestor(args.startView, k)
              /\ frame.declReads = k
              /\ k = 0 => ret = args.startView /\ frame.declReads = 0

ParentViewWitness ==
    /\ pc = "done"
    /\ getParentInjectorViewOffset(args.location) = 2
    /\ frame.declReads = 2
    /\ ret # Null
    /\ ret # args.startView

(***************************************************************************)
(* Shapes.  An LView, an LContainer and a StylingContext are all arrays    *)
(* and are told apart by their length only; heap.len is defined on the     *)
(* arrays and gives their length.  Everything else (a render node, a       *)
(* component, an LContext, null, undefined) is not an array.               *)
(***************************************************************************)
\* interfaces/view.ts and interfaces/container.ts
HEADER_OFFSET == 20
LCONTAINER_LENGTH == 8

Undefined == Null - 1

IsArray(value) == value \in DOMAIN heap.len

\* Array.isArray(value) && value.length >= HEADER_OFFSET
isLView(value) == IsArray(value) /\ heap.len[value] >= HEADER_OFFSET

\* A plausible slip: any array passes for a container.
isLContainerAnyArray(value) == IsArray(value)

\* Array.isArray(value) && value.length === LCONTAINER_LENGTH
isLContainer(value) == IsArray(value) /\ heap.len[value] = LCONTAINER_LENGTH

\* A plausible slip: the container is returned, not the container's parent.
getLViewParentRaw(lView) == heap.parent[lView]

\* const parent = lView[PARENT];
\* return isLContainer(parent) ? parent[PARENT] ! : parent;
getLViewParent(lView) ==
    LET parent == heap.parent[lView] IN
    IF isLContainer(parent) THEN heap.parent[parent] ELSE parent

\* return target[MONKEY_PATCH_KEY_NAME];
readPatchedData(target) == patch[target]

\* A plausible slip: the LContext itself is returned, not its lView.
readPatchedLViewNoUnwrap(target) ==
    LET value == readPatchedData(target) IN
    IF value # Null /\ value # Undefined THEN value ELSE Null

\* if (value) return Array.isArray(value) ? value : value.lView; return null;
readPatchedLView(target) ==
    LET value == readPatchedData(target) IN
    IF value # Null /\ value # Undefined
    THEN IF IsArray(value) THEN value ELSE heap.lView[value]
    ELSE Null

(***************************************************************************)
(* getRootView.  The arrays are numbered 1..NumObjs, each an LView or an   *)
(* LContainer; a parent is created before its children, so heap.parent[o]  *)
(* is Null or a lower number, and the parent of an LContainer is an LView. *)
(* One component (not an array) is patched with an LView or not at all.    *)
(***************************************************************************)
NumObjs == 3

Objs == 1..NumObjs
Component == NumObjs + 1

RootHeaps ==
    {h \in [len : [Objs -> {LCONTAINER_LENGTH, HEADER_OFFSET}],
            parent : {p \in [Objs -> {Null} \cup Objs] : \A o \in Objs : p[o] < o},
            root : [Objs -> BOOLEAN],
            lView : {<<>>}] :
        \A o \in Objs :
            h.len[o] = LCONTAINER_LENGTH =>
                /\ ~h.root[o]
                /\ h.parent[o] # Null => h.len[h.parent[o]] = HEADER_OFFSET}

InitRoot ==
    /\ heap \in RootHeaps
    /\ patch \in [{Component} -> {o \in Objs : heap.len[o] = HEADER_OFFSET}
                                    \cup {Undefined}]
    /\ args \in [componentOrLView :
                    {o \in Objs : heap.len[o] = HEADER_OFFSET} \cup {Component}]
    /\ frame = [lView |-> Null, parentReads |-> 0]
    /\ pc = "call"
    /\ ret = Undefined

\* let lView = isLView(componentOrLView) ? componentOrLView
\*                                       : readPatchedLView(componentOrLView) !;
RootEnter ==
    /\ pc = "call"
    /\ frame' = [lView |-> IF isLView(args.componentOrLView)
                           THEN args.componentOrLView
                           ELSE readPatchedLView(args.componentOrLView),
                 parentReads |-> 0]
    /\ pc' = "loop"
    /\ UNCHANGED <<args, ret, heap, patch>>

\* while (lView && !(lView[FLAGS] & LViewFlags.IsRoot))
RootLoopCond(lView) == lView # Null /\ ~heap.root[lView]

\* lView = getLViewParent(lView) !;
RootStep ==
    /\ pc = "loop"
    /\ RootLoopCond(frame.lView)
    /\ frame' = [lView |-> getLViewParent(frame.lView),
                 parentReads |-> frame.parentReads + 1]
    /\ UNCHANGED <<args, pc, ret, heap, patch>>

\* return lView;
RootReturn ==
    /\ pc = "loop"
    /\ ~RootLoopCond(frame.lView)
    /\ ret' = frame.lView
    /\ pc' = "done"
    /\ UNCHANGED <<args, frame, heap, patch>>

NextRoot == RootEnter \/ RootStep \/ RootReturn

\* Synchronous code that runs to completion: weak fairness.
SpecRoot == InitRoot /\ [][NextRoot]_vars /\ WF_vars(NextRoot)

\* The logical parent of a view: the parent view of its container when the
\* raw parent is a Container Record, the raw parent otherwise.
LogicalParent(v) ==
    LET p == heap.parent[v] IN
    IF p # Null /\ heap.len[p] = LCONTAINER_LENGTH THEN heap.parent[p] ELSE p

\* The first root-flagged view on the chain v, LogicalParent(v), ...; Null
\* when the chain ends without one.
RECURSIVE FirstRootOnChain(_)
FirstRootOnChain(v) ==
    IF v = Null THEN Null
    ELSE IF heap.root[v] THEN v
    ELSE FirstRootOnChain(LogicalParent(v))

\* The call starts from a view whose chain holds a root-flagged view.
ReachesRoot ==
    /\ isLView(args.componentOrLView)
    /\ FirstRootOnChain(args.componentOrLView) # Null

\* C5: for a view whose chain of logical parents reaches a root-flagged
\* view, getRootView terminates and returns the first root-flagged view of
\* the chain; a view that is itself flagged root is returned without a read
\* of its PARENT.
RootViewContract ==
    /\ ReachesRoot ~> (pc = "done")
    /\ [](ReachesRoot /\ pc = "done" =>
            /\ ret = FirstRootOnChain(args.componentOrLView)
            /\ heap.root[args.componentOrLView] =>
                  ret = args.componentOrLView /\ frame.parentReads = 0)

RootViewWitness ==
    /\ pc = "done"
    /\ isLView(args.componentOrLView)
    /\ ~heap.root[args.componentOrLView]
    /\ isLContainer(heap.parent[args.componentOrLView])
    /\ ret = heap.parent[heap.parent[args.componentOrLView]]
    /\ ret # Null
    /\ heap.root[ret]
    /\ frame.parentReads = 1

(***************************************************************************)
(* The monkey-patch table.  patch[n] is n[MONKEY_PATCH_KEY_NAME] of render *)
(* node n: undefined before the first patch, then an LView, an LContext    *)
(* or, once cleared, null or undefined.  The writers (attachPatchData and  *)
(* the clearing on discard) are the engine's; the readers are util.ts.     *)
(* frame.owner[n] records the view the engine last associated with n.      *)
(***************************************************************************)
PatchViews == 2
PatchNodes == 2

PatchedViews == 1..PatchViews
\* One LContext per view, its lView field naming that view.
PatchedContexts == (PatchViews + 1)..(2 * PatchViews)
RenderNodes == (2 * PatchViews + 1)..(2 * PatchViews + PatchNodes)

InitPatch ==
    /\ heap = [len |-> [v \in PatchedViews |-> HEADER_OFFSET],
               lView |-> [c \in PatchedContexts |-> c - PatchViews]]
    /\ patch = [n \in RenderNodes |-> Undefined]
    /\ frame = [owner |-> [n \in RenderNodes |-> Null]]
    /\ args = [target |-> Null]
    /\ pc = "idle"
    /\ ret = NoValue

\* attachPatchData(target, data): target[MONKEY_PATCH_KEY_NAME] = data,
\* data an LView or an LContext
AttachPatchData ==
    \E target \in RenderNodes, data \in PatchedViews \cup PatchedContexts :
        /\ patch' = [patch EXCEPT ![target] = data]
        /\ frame' = [owner |-> [frame.owner EXCEPT ![target] =
                        IF data \in PatchedViews THEN data ELSE heap.lView[data]]]
        /\ pc' = "idle"
        /\ ret' = NoValue
        /\ args' = [target |-> Null]
        /\ UNCHANGED heap

\* The association is cleared: the field is set to null, or deleted.
ClearPatchData ==
    \E target \in RenderNodes, cleared \in {Null, Undefined} :
        /\ patch' = [patch EXCEPT ![target] = cleared]
        /\ frame' = [owner |-> [frame.owner EXCEPT ![target] = Null]]
        /\ pc' = "idle"
        /\ ret' = NoValue
        /\ args' = [target |-> Null]
        /\ UNCHANGED heap

\* readPatchedLView(target)
CallReadPatchedLView ==
    \E target \in RenderNodes :
        /\ args' = [target |-> target]
        /\ ret' = readPatchedLView(target)
        /\ pc' = "done"
        /\ UNCHANGED <<frame, heap, patch>>

NextPatch == AttachPatchData \/ ClearPatchData \/ CallReadPatchedLView

SpecPatch == InitPatch /\ [][NextPatch]_vars

\* C6: after any sequence of associate and clear operations,
\* readPatchedLView(node) is the view currently associated with node (stored
\* directly or through an LContext), and null when node has no association
\* or its association was cleared.
PatchRoundTrip ==
    pc = "done" => ret = frame.owner[args.target]

PatchWitness ==
    /\ pc = "done"
    /\ patch[args.target] \in PatchedContexts
    /\ ret \in PatchedViews
    /\ \E n \in RenderNodes : n # args.target /\ patch[n] = Null

(***************************************************************************)
(* getParentInjectorTNode.  heap.tparent[t] and heap.injectorIndex[t] are  *)
(* TNode.parent and TNode.injectorIndex (the static tree, a parent being   *)
(* created before its children); heap.decl[v] and heap.tHost[v] are        *)
(* v[DECLARATION_VIEW] and v[T_HOST].  The fast path reads the TNode tree   *)
(* only and the cross-view path the views only, so the heaps are drawn as  *)
(* every TNode tree over a fixed view heap, and every view heap over a     *)
(* fixed TNode tree whose nodes have no injector.                          *)
(***************************************************************************)
NumTNodes == 4
NumHostViews == 3
NoInjectorIndex == -1

TNodes == 1..NumTNodes
HostViews == 1..NumHostViews
InjectorIndices == {NoInjectorIndex, 0, 1}
\* The TNodes that are the T_HOST of some view.
HostTNodes == {t \in TNodes : t <= NumHostViews}

TNodeParents ==
    {p \in [TNodes -> {Null} \cup TNodes] : \A t \in TNodes : p[t] < t}

FastPathHeaps ==
    [tparent : TNodeParents,
     injectorIndex : [TNodes -> InjectorIndices],
     decl : {[v \in HostViews |-> v - 1]},
     tHost : {[v \in HostViews |-> Null]}]

CrossViewHeaps ==
    [tparent : {[t \in TNodes |-> t - 1]},
     injectorIndex : {[t \in TNodes |-> NoInjectorIndex]},
     decl : {d \in [HostViews -> {Null} \cup HostViews] :
                \A v \in HostViews : d[v] < v},
     tHost : [HostViews -> {Null} \cup HostTNodes]]

InitParentTNode ==
    /\ \/ /\ heap \in FastPathHeaps
          /\ args \in [location : InjectorLocations({1}, 1),
                       startView : {NumHostViews},
                       startTNode : TNodes]
       \/ /\ heap \in CrossViewHeaps
          /\ args \in [location : InjectorLocations({1}, NumHostViews),
                       startView : HostViews,
                       startTNode : 1..2]
    /\ frame = [injectorIndex |-> 0, parentTNode |-> Null, viewOffset |-> 0,
                parentView |-> Null, consulted |-> {}]
    /\ pc = "call"
    /\ ret = NoValue
    /\ patch = NoValue

\* if (startTNode.parent && startTNode.parent.injectorIndex !== -1)
HasParentWithInjector(tNode) ==
    /\ heap.tparent[tNode] # Null
    /\ heap.injectorIndex[heap.tparent[tNode]] # NoInjectorIndex

\* The branch, and the initialisation of the path taken.
ParentTNodeEnter ==
    /\ pc = "call"
    /\ IF HasParentWithInjector(args.startTNode)
       THEN /\ frame' = [frame EXCEPT
                    !.injectorIndex =
                        heap.injectorIndex[heap.tparent[args.startTNode]],
                    !.parentTNode = heap.tparent[args.startTNode]]
            /\ pc' = "fast"
       ELSE /\ frame' = [frame EXCEPT
                    !.viewOffset = getParentInjectorViewOffset(args.location),
                    !.parentView = args.startView,
                    !.parentTNode = heap.tHost[args.startView],
                    !.consulted = {"location", "startView"}]
            /\ pc' = "cross"
    /\ UNCHANGED <<args, ret, heap, patch>>

\* while (parentTNode.parent != null && injectorIndex == parentTNode.injectorIndex)
FastLoopCond ==
    /\ heap.tparent[frame.parentTNode] # Null
    /\ frame.injectorIndex = heap.injectorIndex[frame.parentTNode]

\* parentTNode = parentTNode.parent;
ParentTNodeFastStep ==
    /\ pc = "fast"
    /\ FastLoopCond
    /\ frame' = [frame EXCEPT !.parentTNode = heap.tparent[frame.parentTNode]]
    /\ UNCHANGED <<args, pc, ret, heap, patch>>

\* return parentTNode; (fast path)
ParentTNodeFastReturn ==
    /\ pc = "fast"
    /\ ~FastLoopCond
    /\ ret' = frame.parentTNode
    /\ pc' = "done"
    /\ UNCHANGED <<args, frame, heap, patch>>

\* A plausible slip: the loop condition of getParentInjectorView.
CrossLoopCondFromZero(viewOffset) == viewOffset > 0

\* while (viewOffset > 1)
CrossLoopCond(viewOffset) == viewOffset > 1

\* parentView = parentView[DECLARATION_VIEW] !;
\* parentTNode = parentView[T_HOST]; viewOffset--;
\* Reading a field of null throws a TypeError.
ParentTNodeCrossStep ==
    /\ pc = "cross"
    /\ CrossLoopCond(frame.viewOffset)
    /\ IF frame.parentView = Null \/ heap.decl[frame.parentView] = Null
       THEN /\ pc' = "throw"
            /\ UNCHANGED frame
       ELSE /\ frame' = [frame EXCEPT
                    !.parentView = heap.decl[frame.parentView],
                    !.parentTNode = heap.tHost[heap.decl[frame.parentView]],
                    !.viewOffset = frame.viewOffset - 1]
            /\ UNCHANGED pc
    /\ UNCHANGED <<args, ret, heap, patch>>

\* return parentTNode; (cross-view path)
ParentTNodeCrossReturn ==
    /\ pc = "cross"
    /\ ~CrossLoopCond(frame.viewOffset)
    /\ ret' = frame.parentTNode
    /\ pc' = "done"
    /\ UNCHANGED <<args, frame, heap, patch>>

NextParentTNode ==
    \/ ParentTNodeEnter
    \/ ParentTNodeFastStep
    \/ ParentTNodeFastReturn
    \/ ParentTNodeCrossStep
    \/ ParentTNodeCrossReturn

SpecParentTNode == InitParentTNode /\ [][NextParentTNode]_vars

\* The nearest TNode on the static parent chain from a that has no parent or
\* whose parent has another injector index than its own.
RECURSIVE NearestScopeOwner(_)
NearestScopeOwner(a) ==
    IF heap.tparent[a] = Null
          \/ heap.injectorIndex[heap.tparent[a]] # heap.injectorIndex[a]
    THEN a
    ELSE NearestScopeOwner(heap.tparent[a])

\* C7: when startTNode has a parent with a valid injector index, the result
\* is the nearest TNode A on the parent chain, from that parent on, that has
\* no parent or whose parent's injector index differs from A's own; location
\* and startView are not consulted.
FastPathContract ==
    (pc = "done" /\ HasParentWithInjector(args.startTNode)) =>
        /\ ret = NearestScopeOwner(heap.tparent[args.startTNode])
        /\ frame.consulted = {}

\* C8: when startTNode has no parent, or a parent without injector index,
\* and the decoded view offset is k >= 1, the result is the T_HOST of the
\* view k - 1 declaration hops above startView (it returns whenever those
\* hops all reach a view).
CrossViewContract ==
    LET k == getParentInjectorViewOffset(args.location) IN
    (~HasParentWithInjector(args.startTNode) /\ k >= 1) =>
        /\ DeclAncestor(args.startView, k - 1) # Null => pc # "throw"
        /\ pc = "done" =>
              /\ DeclAncestor(args.startView, k - 1) # Null
              /\ ret = heap.tHost[DeclAncestor(args.startView, k - 1)]

CrossViewWitness ==
    /\ pc = "done"
    /\ ~HasParentWithInjector(args.startTNode)
    /\ getParentInjectorViewOffset(args.location) = 3
    /\ ret # Null
    /\ ret # heap.tHost[args.startView]
    /\ ret # heap.tHost[heap.decl[args.startView]]

(***************************************************************************)
(* Slot values.  A slot of an LView holds a render node or a wrapper       *)
(* around one: an LContainer, an LView or a StylingContext, each an array  *)
(* whose [HOST] is the value it wraps.  Null is 0, the render nodes are    *)
(* 1..NumRNodes and the arrays follow; a wrapper is created around a value *)
(* that exists, so heap.host[a] is a lower number; an LContainer does not   *)
(* wrap another LContainer.                                                *)
(***************************************************************************)
NumRNodes == 1
NumArrays == 3
NumWrappers == 2
MaxRoots == 2

\* A StylingContext: an array whose length is neither an LContainer's nor an
\* LView's.
STYLING_CONTEXT_LENGTH == LCONTAINER_LENGTH + 2

ArrayLengths == {LCONTAINER_LENGTH, HEADER_OFFSET, STYLING_CONTEXT_LENGTH}

ArrayIds(n) == (NumRNodes + 1)..(NumRNodes + n)
SlotValues(n) == 0..(NumRNodes + n)

WrapperHeaps(n) ==
    {w \in [len : [ArrayIds(n) -> ArrayLengths],
            host : {h \in [ArrayIds(n) -> SlotValues(n)] :
                        \A a \in ArrayIds(n) : h[a] < a}] :
        \A a \in ArrayIds(n) :
            (w.len[a] = LCONTAINER_LENGTH /\ w.host[a] \in ArrayIds(n)) =>
                w.len[w.host[a]] # LCONTAINER_LENGTH}

\* readElementValue: while (Array.isArray(value)) value = value[HOST];
RECURSIVE readElementValue(_)
readElementValue(value) ==
    IF IsArray(value) THEN readElementValue(heap.host[value]) ELSE value

(***************************************************************************)
(* getLContainer                                                           *)
(***************************************************************************)
InitContainer ==
    /\ heap \in WrapperHeaps(NumArrays)
    /\ args \in [value : SlotValues(NumArrays)]
    /\ frame = [value |-> Null]
    /\ pc = "call"
    /\ ret = NoValue
    /\ patch = NoValue

ContainerEnter ==
    /\ pc = "call"
    /\ frame' = [value |-> args.value]
    /\ pc' = "loop"
    /\ UNCHANGED <<args, ret, heap, patch>>

\* One iteration of while (Array.isArray(value)):
\* value = value[HOST]; if (isLContainer(value)) return value;
ContainerStep ==
    /\ pc = "loop"
    /\ IsArray(frame.value)
    /\ frame' = [value |-> heap.host[frame.value]]
    /\ IF isLContainer(heap.host[frame.value])
       THEN ret' = heap.host[frame.value] /\ pc' = "done"
       ELSE UNCHANGED <<ret, pc>>
    /\ UNCHANGED <<args, heap, patch>>

\* return null;
ContainerReturnNull ==
    /\ pc = "loop"
    /\ ~IsArray(frame.value)
    /\ ret' = Null
    /\ pc' = "done"
    /\ UNCHANGED <<args, frame, heap, patch>>

NextContainer == ContainerEnter \/ ContainerStep \/ ContainerReturnNull

SpecContainer == InitContainer /\ [][NextContainer]_vars

\* The first value of Container Record shape on the chain value,
\* host(value), host(host(value)), ...; Null when the chain ends at a value
\* that is not an array.
RECURSIVE FirstContainerOnChain(_)
FirstContainerOnChain(value) ==
    IF ~IsArray(value) THEN Null
    ELSE IF heap.len[value] = LCONTAINER_LENGTH THEN value
    ELSE FirstContainerOnChain(heap.host[value])

\* C9: getLContainer(slot) returns the first value of Container Record
\* shape on the chain slot, host(slot), host(host(slot)), ..., a slot that is
\* itself a Container Record included, and null when the chain ends at a
\* bare render node without one.
ContainerContract ==
    pc = "done" => ret = FirstContainerOnChain(args.value)

(***************************************************************************)
(* getLastRootElementFromView.  The view has roots root TNodes 1..roots,   *)
(* chained by next from tView.firstChild; root t is at slot                *)
(* HEADER_OFFSET + t - 1 of the view.                                      *)
(***************************************************************************)
LastRootHeap(roots, wrappers, slots) ==
    [len |-> wrappers.len,
     host |-> wrappers.host,
     firstChild |-> IF roots = 0 THEN Null ELSE 1,
     next |-> [t \in 1..roots |-> IF t < roots THEN t + 1 ELSE Null],
     index |-> [t \in 1..roots |-> HEADER_OFFSET + t - 1],
     slots |-> slots]

InitLastRoot ==
    /\ \E roots \in 0..MaxRoots :
         \E wrappers \in WrapperHeaps(NumWrappers),
            slots \in [HEADER_OFFSET..(HEADER_OFFSET + roots - 1)
                          -> SlotValues(NumWrappers) \ {Null}] :
            heap = LastRootHeap(roots, wrappers, slots)
    /\ args = [lView |-> "lView"]
    /\ frame = [child |-> Null, lastChild |-> Undefined]
    /\ pc = "call"
    /\ ret = NoValue
    /\ patch = NoValue

\* const tView = lView[TVIEW]; let child = tView.firstChild;
\* let lastChild: TNode;
LastRootEnter ==
    /\ pc = "call"
    /\ frame' = [child |-> heap.firstChild, lastChild |-> Undefined]
    /\ pc' = "loop"
    /\ UNCHANGED <<args, ret, heap, patch>>

\* while (child) { lastChild = child; child = child.next; }
LastRootStep ==
    /\ pc = "loop"
    /\ frame.child # Null
    /\ frame' = [child |-> heap.next[frame.child], lastChild |-> frame.child]
    /\ UNCHANGED <<args, pc, ret, heap, patch>>

\* return lView[lastChild !.index];
\* lastChild is undefined when the view has no root: a TypeError.
LastRootReturn ==
    /\ pc = "loop"
    /\ frame.child = Null
    /\ IF frame.lastChild = Undefined
       THEN pc' = "throw" /\ UNCHANGED ret
       ELSE /\ ret' = heap.slots[heap.index[frame.lastChild]]
            /\ pc' = "done"
    /\ UNCHANGED <<args, frame, heap, patch>>

NextLastRoot == LastRootEnter \/ LastRootStep \/ LastRootReturn

SpecLastRoot == InitLastRoot /\ [][NextLastRoot]_vars

\* The last TNode of the sibling chain from t.
RECURSIVE LastSibling(_)
LastSibling(t) == IF heap.next[t] = Null THEN t ELSE LastSibling(heap.next[t])

\* C10: for a view with at least one root TNode,
\* getLastRootElementFromView returns a bare render node: readElementValue
\* of the slot at the index of the last TNode of the firstChild sibling
\* chain, whatever wrapper that slot holds.
LastRootContract ==
    heap.firstChild # Null =>
        /\ pc # "throw"
        /\ pc = "done" =>
              /\ ret = readElementValue(
                          heap.slots[heap.index[LastSibling(heap.firstChild)]])
              /\ ~IsArray(ret)

(***************************************************************************)
(* getLViewParent on its own, with and without the debug checks.  The      *)
(* argument is any array of the heap (an LView or, wrongly, an LContainer) *)
(* or null; args.ngDevMode says whether the debug checks are compiled in.  *)
(***************************************************************************)
\* assertLView(value) of ./assert: value is defined and has the shape of an
\* LView.
assertLViewPasses(value) == value # Null /\ isLView(value)

InitLViewParent ==
    /\ heap \in RootHeaps
    /\ args \in [lView : Objs \cup {Null}, ngDevMode : BOOLEAN]
    /\ frame = NoValue
    /\ pc = "call"
    /\ ret = Undefined
    /\ patch = NoValue

\* ngDevMode && assertLView(lView); then the body.  Without the debug check
\* a null argument throws a TypeError at lView[PARENT].
CallGetLViewParent ==
    /\ pc = "call"
    /\ IF (args.ngDevMode /\ ~assertLViewPasses(args.lView)) \/ args.lView = Null
       THEN pc' = "throw" /\ UNCHANGED ret
       ELSE ret' = getLViewParent(args.lView) /\ pc' = "done"
    /\ UNCHANGED <<args, frame, heap, patch>>

NextLViewParent == CallGetLViewParent

SpecLViewParent == InitLViewParent /\ [][NextLViewParent]_vars

\* The call was made with the debug checks on a view.
DebugCallOnView ==
    /\ pc # "call"
    /\ args.ngDevMode
    /\ args.lView # Null
    /\ heap.len[args.lView] = HEADER_OFFSET

\* The view has no parent reference and is not flagged root.
Orphan(v) == heap.parent[v] = Null /\ ~heap.root[v]

\* C11: with debug checks enabled, getLViewParent(view) signals a
\* precondition violation and returns no value whenever view has no parent
\* reference and is not flagged root; for every other view it returns the
\* parent of the container when the raw parent is a Container Record, and
\* the raw parent otherwise.
LViewParentContract ==
    DebugCallOnView =>
        IF Orphan(args.lView)
        THEN pc = "throw"
        ELSE pc = "done" /\ ret = LogicalParent(args.lView)

\* C11 as amended: with debug checks enabled, getLViewParent signals a
\* precondition violation exactly when its argument is not a View Record;
\* for every view, one with no parent reference and no root flag included
\* (for which it returns null), it returns the parent of the container when
\* the raw parent is a Container Record, and the raw parent otherwise.
LViewParentAmended ==
    /\ DebugCallOnView => pc = "done" /\ ret = LogicalParent(args.lView)
    /\ (pc # "call" /\ args.ngDevMode
            /\ (args.lView = Null \/ heap.len[args.lView] # HEADER_OFFSET)) =>
          pc = "throw"

LViewParentWitness ==
    /\ DebugCallOnView
    /\ Orphan(args.lView)
    /\ pc = "done"
    /\ ret = Null

====
